---------------------------- MODULE Spec2Model ----------------------------
(***************************************************************************)
(* Vehicle rental office application (src/main.py).                        *)
(*                                                                         *)
(* The three CSV files are modelled by their data rows: a row is a record  *)
(* of strings, as csv.DictWriter writes it (every value passed through     *)
(* str()) and csv.DictReader reads it.  Python objects (User, Vehicle,     *)
(* Rental) are records of their fields.  A dictionary produced by to_dict  *)
(* holds Python values, which keep their type: PyStr, PyInt, PyFloat,      *)
(* PyBool.                                                                 *)
(*                                                                         *)
(* The GUI is single threaded.  Every popup is modal (grab_set), so one    *)
(* handler runs at a time and each handler is one action.  Message boxes   *)
(* and the yes/no dialog block inside their handler; the variable event    *)
(* records the handler that ran last, the titles of the dialogs it showed  *)
(* ("Confirm Return" is the yes/no question) and what it returned.         *)
(***************************************************************************)
EXTENDS Integers, Sequences, FiniteSets, TLC

VARIABLES
    users_csv,      \* data rows of users.csv
    vehicles_csv,   \* data rows of vehicles.csv
    rentals_csv,    \* data rows of rentals.csv
    current_user,   \* <<>> (None) or <<User>>
    screen,         \* "login", "registration" or "main"
    grid,           \* Vehicle objects bound to the tiles of the main screen
    popup,          \* the open modal window and the objects its closures hold
    event,          \* last handler, the dialogs it showed, the value it returned
    added_users,    \* log: the User objects for which add_user returned True
    probe,          \* a Vehicle taken through to_dict, the CSV file and from_dict
    exists,         \* os.path.exists of each of the three files
    fee_form        \* the two date entries of the rent popup and its fee label

vars == <<users_csv, vehicles_csv, rentals_csv, current_user, screen, grid,
          popup, event, added_users, probe, exists, fee_form>>

---------------------------------------------------------------------------
(* Bounds of the model *)

MaxUsers == 2
MaxRentals == 2
MaxRows == 3

---------------------------------------------------------------------------
(* Python values and the conversions the code applies to them *)

PyStr(s) == [tag |-> "str", s |-> s, n |-> 0]
PyInt(n) == [tag |-> "int", s |-> "", n |-> n]
PyFloat(n) == [tag |-> "float", s |-> "", n |-> n]
PyBool(b) == [tag |-> "bool", s |-> "", n |-> IF b THEN 1 ELSE 0]

\* a == b in Python: a str equals only an equal str; bool, int and float
\* compare by numeric value
py_eq(a, b) ==
    IF a.tag = "str" \/ b.tag = "str"
    THEN a.tag = b.tag /\ a.s = b.s
    ELSE a.n = b.n

Digit(d) ==
    CASE d = 0 -> "0" [] d = 1 -> "1" [] d = 2 -> "2" [] d = 3 -> "3"
      [] d = 4 -> "4" [] d = 5 -> "5" [] d = 6 -> "6" [] d = 7 -> "7"
      [] d = 8 -> "8" [] d = 9 -> "9"

RECURSIVE IntToStr(_)
IntToStr(n) == IF n < 10 THEN Digit(n) ELSE IntToStr(n \div 10) \o Digit(n % 10)

\* the numbers that occur in the catalogue (years and whole daily rates)
Numerals == {2019, 2020, 50, 80}

NumeralText == [n \in Numerals |-> IntToStr(n)]

\* str(x), which csv.DictWriter applies to every value it writes
py_str(x) ==
    CASE x.tag = "str" -> x.s
      [] x.tag = "int" -> NumeralText[x.n]
      [] x.tag = "float" -> NumeralText[x.n] \o ".0"
      [] x.tag = "bool" -> IF x.n = 1 THEN "True" ELSE "False"

\* int(x)
py_int(x) ==
    IF x.tag = "str"
    THEN CHOOSE n \in Numerals : NumeralText[n] = x.s
    ELSE x.n

\* float(x), for whole-valued floats
py_float(x) ==
    IF x.tag = "str"
    THEN CHOOSE n \in Numerals : x.s \in {NumeralText[n], NumeralText[n] \o ".0"}
    ELSE x.n

\* csv.DictWriter.writerow: one text cell per field
writerow(d) == [k \in DOMAIN d |-> py_str(d[k])]

\* a row as csv.DictReader yields it: every value a str
readrow(r) == [k \in DOMAIN r |-> PyStr(r[k])]

\* str.strip() on the texts typed into the forms
strip(s) ==
    CASE s = " " -> ""
      [] s = " Ann " -> "Ann"
      [] OTHER -> s

\* str.upper() on the texts typed into the actual-return-date entry
upper(s) == IF s = "n/a" THEN "N/A" ELSE s

\* mutant: any text that is not empty is taken for a date
strptime_ok_lenient(s) == s # ""

\* datetime.strptime(s, "%Y-%m-%d") succeeds
strptime_ok(s) == s \in {"2025-01-01", "2025-01-04"}

---------------------------------------------------------------------------
(* class User *)

User(username, password) == [username |-> username, password |-> password]

User_to_dict(u) ==
    [username |-> PyStr(u.username), password |-> PyStr(u.password)]

\* mutant: the two columns taken in the wrong order
User_from_dict_swapped(data) == User(data.password.s, data.username.s)

User_from_dict(data) == User(data.username.s, data.password.s)

---------------------------------------------------------------------------
(* class Vehicle *)

Vehicle(vehicle_id, vehicle_type, make, model, year, daily_rate, image_path, is_available) ==
    [vehicle_id |-> vehicle_id, type |-> vehicle_type, make |-> make,
     model |-> model, year |-> year, daily_rate |-> py_float(daily_rate),
     image_path |-> image_path, is_available |-> is_available]

Vehicle_to_dict(v) ==
    [vehicle_id |-> PyStr(v.vehicle_id), type |-> PyStr(v.type),
     make |-> PyStr(v.make), model |-> PyStr(v.model),
     year |-> PyInt(v.year), daily_rate |-> PyFloat(v.daily_rate),
     image_path |-> PyStr(v.image_path),
     is_available |-> PyBool(v.is_available)]

\* mutant: the image path is replaced by the placeholder on load
Vehicle_from_dict_placeholder_image(data) ==
    Vehicle(data.vehicle_id.s, data.type.s, data.make.s, data.model.s,
            py_int(data.year), PyFloat(py_float(data.daily_rate)),
            "images/placeholder.png",
            py_eq(data.is_available, PyStr("True")))

Vehicle_from_dict(data) ==
    Vehicle(data.vehicle_id.s, data.type.s, data.make.s, data.model.s,
            py_int(data.year), PyFloat(py_float(data.daily_rate)),
            data.image_path.s,
            py_eq(data.is_available, PyStr("True")))

---------------------------------------------------------------------------
(* class Rental *)

Rental(rental_id, vehicle_id, customer_id, customer_name, customer_address, customer_tel, rent_date, proposed_return_date, actual_return_date, status) ==
    [rental_id |-> rental_id, vehicle_id |-> vehicle_id,
     customer_id |-> customer_id, customer_name |-> customer_name,
     customer_address |-> customer_address, customer_tel |-> customer_tel,
     rent_date |-> rent_date, proposed_return_date |-> proposed_return_date,
     actual_return_date |-> actual_return_date, status |-> status]

Rental_to_dict(r) ==
    [rental_id |-> PyStr(r.rental_id), vehicle_id |-> PyStr(r.vehicle_id),
     customer_id |-> PyStr(r.customer_id),
     customer_name |-> PyStr(r.customer_name),
     customer_address |-> PyStr(r.customer_address),
     customer_tel |-> PyStr(r.customer_tel), rent_date |-> PyStr(r.rent_date),
     proposed_return_date |-> PyStr(r.proposed_return_date),
     actual_return_date |-> PyStr(r.actual_return_date),
     status |-> PyStr(r.status)]

Rental_from_dict(data) ==
    Rental(data.rental_id.s, data.vehicle_id.s, data.customer_id.s,
           data.customer_name.s, data.customer_address.s, data.customer_tel.s,
           data.rent_date.s, data.proposed_return_date.s,
           data.actual_return_date.s, data.status.s)

---------------------------------------------------------------------------
(* class DatabaseManager *)

get_users(file) == [i \in 1..Len(file) |-> User_from_dict(readrow(file[i]))]

write_users_to_csv(users) ==
    [i \in 1..Len(users) |-> writerow(User_to_dict(users[i]))]

\* mutant: an account counts as present only when the password matches too
add_user_exists_same_password(file, user) ==
    \E i \in 1..Len(get_users(file)) : get_users(file)[i] = user

\* add_user: the file afterwards and the value returned
add_user_exists(file, user) ==
    \E i \in 1..Len(get_users(file)) : get_users(file)[i].username = user.username

\* mutant: the user is appended without the duplicate check
add_user_file_always(file, user) ==
    write_users_to_csv(Append(get_users(file), user))

add_user_file(file, user) ==
    IF add_user_exists(file, user)
    THEN file
    ELSE write_users_to_csv(Append(get_users(file), user))

add_user_ret(file, user) == ~add_user_exists(file, user)

get_vehicles(file) ==
    [i \in 1..Len(file) |-> Vehicle_from_dict(readrow(file[i]))]

write_vehicles_to_csv(vehicles) ==
    [i \in 1..Len(vehicles) |-> writerow(Vehicle_to_dict(vehicles[i]))]

add_vehicle(file, vehicle) ==
    write_vehicles_to_csv(Append(get_vehicles(file), vehicle))

\* the first of the matching positions of a scan, 0 when there is none
FirstIndex(matches) ==
    IF matches = {} THEN 0
    ELSE CHOOSE i \in matches : \A j \in matches : i <= j

\* mutant: the scan never matches, the file is rewritten as it was
update_vehicle_nomatch(file, updated_vehicle) ==
    write_vehicles_to_csv(get_vehicles(file))

\* mutant: an entity that matches no record is appended
update_vehicle_appending(file, updated_vehicle) ==
    LET vehicles == get_vehicles(file)
        i == FirstIndex({k \in 1..Len(vehicles) :
                 vehicles[k].vehicle_id = updated_vehicle.vehicle_id})
    IN  write_vehicles_to_csv(
            IF i = 0 THEN Append(vehicles, updated_vehicle)
            ELSE [vehicles EXCEPT ![i] = updated_vehicle])

update_vehicle(file, updated_vehicle) ==
    LET vehicles == get_vehicles(file)
        i == FirstIndex({k \in 1..Len(vehicles) :
                 vehicles[k].vehicle_id = updated_vehicle.vehicle_id})
    IN  write_vehicles_to_csv(
            IF i = 0 THEN vehicles ELSE [vehicles EXCEPT ![i] = updated_vehicle])

get_rentals(file) ==
    [i \in 1..Len(file) |-> Rental_from_dict(readrow(file[i]))]

write_rentals_to_csv(rentals) ==
    [i \in 1..Len(rentals) |-> writerow(Rental_to_dict(rentals[i]))]

\* mutant: the new rental is not appended before the rewrite
add_rental_dropped(file, rental) == write_rentals_to_csv(get_rentals(file))

\* mutant: the file is rewritten with the new rental alone
add_rental_truncating(file, rental) == write_rentals_to_csv(<<rental>>)

add_rental(file, rental) ==
    write_rentals_to_csv(Append(get_rentals(file), rental))

\* mutant: the scan has no break, every matching record is replaced
update_rental_every_match(file, updated_rental) ==
    LET rentals == get_rentals(file)
    IN  write_rentals_to_csv(
            [k \in 1..Len(rentals) |->
                IF rentals[k].rental_id = updated_rental.rental_id
                THEN updated_rental ELSE rentals[k]])

update_rental(file, updated_rental) ==
    LET rentals == get_rentals(file)
        i == FirstIndex({k \in 1..Len(rentals) :
                 rentals[k].rental_id = updated_rental.rental_id})
    IN  write_rentals_to_csv(
            IF i = 0 THEN rentals ELSE [rentals EXCEPT ![i] = updated_rental])

---------------------------------------------------------------------------
(* Texts typed into the forms *)

UsernameEntries == {"", "amal", "nimal"}
PasswordEntries == {"", "pw1", "pw2"}

\* the one staff account used while the rental screens are explored
StaffUsernames == {"", "amal"}
StaffPasswords == {"", "pw1"}

CustomerIdEntries == {"", "C1"}
CustomerNameEntries == {" ", " Ann "}
CustomerAddressEntries == {"", "Kandy"}
CustomerTelEntries == {" ", "071"}
RentDateEntries == {"2025-01-01", "01/01/2025"}
ReturnDateEntries == {"2025-01-04", ""}
ActualReturnEntries == {"N/A", "n/a", "2025-01-04", "soon"}
StatusOptions == {"Rented", "Returned"}
VehicleStatusOptions == {"Available", "Rented"}

\* what is typed into the rent popup: the complete form, or the complete
\* form with one entry left blank or one date mistyped
RentForms ==
    LET Complete == [id |-> "C1", name |-> " Ann ", address |-> "Kandy",
                     tel |-> "071", rent |-> "2025-01-01", return |-> "2025-01-04"]
        All == [id : CustomerIdEntries, name : CustomerNameEntries,
                address : CustomerAddressEntries, tel : CustomerTelEntries,
                rent : RentDateEntries, return : ReturnDateEntries]
    IN  {f \in All : Cardinality({k \in DOMAIN f : f[k] # Complete[k]}) <= 1}

\* what is typed into the rental details window: with good dates, the name
\* as it stands and any actual return date and status; or a blanked or kept
\* name and any status with one of the two dates mistyped
EditForms ==
    LET All == [name : CustomerNameEntries, rent : RentDateEntries,
                return : ReturnDateEntries, actual : ActualReturnEntries,
                status : StatusOptions]
    IN  {f \in All :
            \/ f.rent = "2025-01-01" /\ f.return = "2025-01-04" /\ f.name = " Ann "
            \/ f.rent # "2025-01-01" /\ f.return = "2025-01-04" /\ f.actual = "2025-01-04"
            \/ f.rent = "2025-01-01" /\ f.return # "2025-01-04" /\ f.actual = "2025-01-04"}

\* str(uuid.uuid4()): an identifier no stored rental has
NewRentalId(file) == "R" \o IntToStr(Len(file) + 1)

RentalIds == {"R" \o IntToStr(n) : n \in 1..MaxRentals}

---------------------------------------------------------------------------
(* class VehicleRentalApp: state of the windows *)

NoPopup == [kind |-> "none", vehicle |-> <<>>, rental |-> <<>>]

NoProbe == [vehicle |-> <<>>, dict |-> <<>>, from_dict |-> <<>>, file |-> <<>>,
            from_file |-> <<>>]

\* the three files, and the constructor's DatabaseManager() having made sure
\* that each of them exists
Collections == {"users", "vehicles", "rentals"}

AllExist == [c \in Collections |-> TRUE]

\* the fee label is followed in SpecFee only; elsewhere it is left out
NoFeeForm == [rent_date_entry |-> "", return_date_entry |-> "", total_fee_var |-> ""]

\* what the last handler showed and returned: the titles of its dialogs, in
\* order (with the message where two dialogs of a handler share a title)
Event(op, dialogs, ret) == [op |-> op, dialogs |-> dialogs, ret |-> ret]

\* the catalogue the office starts with: DatabaseManager.add_vehicle of each
\* vehicle, is_available left at its default
SeedVehicles ==
    add_vehicle(
        add_vehicle(<<>>,
            Vehicle("V1", "Car", "Toyota", "Corolla", 2020, PyFloat(50),
                    "images/toyota_corolla.jpg", TRUE)),
        Vehicle("V2", "Van", "Honda", "Odyssey", 2019, PyInt(80),
                "images/honda_odyssey.jpg", TRUE))

Init ==
    /\ users_csv = <<>>
    /\ vehicles_csv = SeedVehicles
    /\ rentals_csv = <<>>
    /\ current_user = <<>>
    /\ screen = "login"
    /\ grid = <<>>
    /\ popup = NoPopup
    /\ event = Event("__init__", <<>>, "None")
    /\ added_users = <<>>
    /\ probe = NoProbe
    /\ exists = AllExist
    /\ fee_form = NoFeeForm

---------------------------------------------------------------------------
(* Login and registration *)

show_registration_screen ==
    /\ screen = "login"
    /\ screen' = "registration"
    /\ event' = Event("show_registration_screen", <<>>, "None")
    /\ UNCHANGED <<users_csv, vehicles_csv, rentals_csv, current_user, grid,
                   popup, added_users, probe, exists, fee_form>>

show_login_screen ==
    /\ screen = "registration"
    /\ screen' = "login"
    /\ event' = Event("show_login_screen", <<>>, "None")
    /\ UNCHANGED <<users_csv, vehicles_csv, rentals_csv, current_user, grid,
                   popup, added_users, probe, exists, fee_form>>

\* mutant: the password is not compared
login_match_username_only(users, username, password) ==
    FirstIndex({k \in 1..Len(users) : users[k].username = username})

\* index of the first stored user with these credentials, 0 when none
login_match(users, username, password) ==
    FirstIndex({k \in 1..Len(users) :
        users[k].username = username /\ users[k].password = password})

login(username, password) ==
    /\ screen = "login"
    /\ LET users == get_users(users_csv)
           i == login_match(users, username, password)
       IN  IF i # 0
           THEN /\ current_user' = <<users[i]>>
                /\ screen' = "main"
                /\ grid' = get_vehicles(vehicles_csv)
                /\ event' = Event("login", <<"Success">>, "None")
           ELSE /\ event' = Event("login", <<"Login Failed">>, "None")
                /\ UNCHANGED <<current_user, screen, grid>>
    /\ UNCHANGED <<users_csv, vehicles_csv, rentals_csv, popup, added_users, probe, exists, fee_form>>

\* DatabaseManager.add_user called with User(username, password)
call_add_user(username, password) ==
    LET user == User(username, password)
    IN  /\ add_user_exists(users_csv, user) \/ Len(users_csv) < MaxUsers
        /\ users_csv' = add_user_file(users_csv, user)
        /\ added_users' = IF add_user_ret(users_csv, user)
                          THEN Append(added_users, user)
                          ELSE added_users
        /\ event' = Event("add_user", <<>>,
                          IF add_user_ret(users_csv, user) THEN "True" ELSE "False")
        /\ UNCHANGED <<vehicles_csv, rentals_csv, current_user, screen, grid, popup, probe, exists, fee_form>>

\* mutant: the entries are not checked for being empty
register_user_unchecked(username, password) ==
    /\ screen = "registration"
    /\ LET new_user == User(username, password)
       IN  /\ add_user_exists(users_csv, new_user) \/ Len(users_csv) < MaxUsers
           /\ users_csv' = add_user_file(users_csv, new_user)
           /\ IF add_user_ret(users_csv, new_user)
              THEN /\ added_users' = Append(added_users, new_user)
                   /\ screen' = "login"
                   /\ event' = Event("register_user", <<"Success">>, "None")
              ELSE /\ event' = Event("register_user", <<"Error: already exists">>, "None")
                   /\ UNCHANGED <<added_users, screen>>
    /\ UNCHANGED <<vehicles_csv, rentals_csv, current_user, grid, popup, probe, exists, fee_form>>

register_user(username, password) ==
    /\ screen = "registration"
    /\ IF username = "" \/ password = ""
       THEN /\ event' = Event("register_user", <<"Error: cannot be empty">>, "None")
            /\ UNCHANGED <<users_csv, added_users, screen>>
       ELSE LET new_user == User(username, password)
            IN  /\ add_user_exists(users_csv, new_user) \/ Len(users_csv) < MaxUsers
                /\ users_csv' = add_user_file(users_csv, new_user)
                /\ IF add_user_ret(users_csv, new_user)
                   THEN /\ added_users' = Append(added_users, new_user)
                        /\ screen' = "login"
                        /\ event' = Event("register_user", <<"Success">>, "None")
                   ELSE /\ event' = Event("register_user", <<"Error: already exists">>, "None")
                        /\ UNCHANGED <<added_users, screen>>
    /\ UNCHANGED <<vehicles_csv, rentals_csv, current_user, grid, popup, probe, exists, fee_form>>

---------------------------------------------------------------------------
(* Main screen *)

MainIdle == screen = "main" /\ popup.kind = "none"

\* "Check and Update" on tile i
show_vehicle_details_for_update(i) ==
    /\ MainIdle
    /\ popup' = [kind |-> "detail", vehicle |-> <<grid[i]>>, rental |-> <<>>]
    /\ event' = Event("show_vehicle_details_for_update", <<>>, "None")
    /\ UNCHANGED <<users_csv, vehicles_csv, rentals_csv, current_user, screen,
                   grid, added_users, probe, exists, fee_form>>

\* mutant: the status is compared with the wrong spelling
active_rentals_wrong_case(file, vehicle) ==
    SelectSeq(get_rentals(file),
              LAMBDA r : r.vehicle_id = vehicle.vehicle_id /\ r.status = "rented")

\* the Rented agreements of a vehicle, as update_vehicle_status collects them
active_rentals(file, vehicle) ==
    SelectSeq(get_rentals(file),
              LAMBDA r : r.vehicle_id = vehicle.vehicle_id /\ r.status = "Rented")

\* mutant: the comparison with the current status is missing
update_vehicle_status_always_writes(new_status_str, confirm) ==
    /\ popup.kind = "detail"
    /\ LET vehicle == popup.vehicle[1]
           new_is_available == (new_status_str = "Available")
       IN  /\ vehicles_csv' =
                  update_vehicle(vehicles_csv,
                      [vehicle EXCEPT !.is_available = new_is_available])
           /\ event' = Event("update_vehicle_status", <<"Status Updated">>, "None")
           /\ popup' = NoPopup
           /\ grid' = get_vehicles(vehicles_csv')
    /\ UNCHANGED <<users_csv, rentals_csv, current_user, screen, added_users,
                   probe, exists, fee_form>>

\* mutant: a vehicle set to Available has its Rented agreements marked Returned
update_vehicle_status_returning_rentals(new_status_str, confirm) ==
    /\ popup.kind = "detail"
    /\ LET vehicle == popup.vehicle[1]
           new_is_available == (new_status_str = "Available")
           ask == new_is_available /\ Len(active_rentals(rentals_csv, vehicle)) > 0
       IN  IF new_is_available = vehicle.is_available
           THEN /\ event' = Event("update_vehicle_status", <<"No Change">>, "None")
                /\ UNCHANGED <<vehicles_csv, rentals_csv, popup, grid>>
           ELSE IF ask /\ ~confirm
           THEN /\ event' = Event("update_vehicle_status", <<"Confirm Return">>, "None")
                /\ UNCHANGED <<vehicles_csv, rentals_csv, popup, grid>>
           ELSE /\ vehicles_csv' =
                       update_vehicle(vehicles_csv,
                           [vehicle EXCEPT !.is_available = new_is_available])
                /\ rentals_csv' =
                       [k \in DOMAIN rentals_csv |->
                           IF /\ new_is_available
                              /\ rentals_csv[k].vehicle_id = vehicle.vehicle_id
                              /\ rentals_csv[k].status = "Rented"
                           THEN [rentals_csv[k] EXCEPT !.status = "Returned"]
                           ELSE rentals_csv[k]]
                /\ event' = Event("update_vehicle_status",
                                 IF ask THEN <<"Confirm Return", "Status Updated">>
                                        ELSE <<"Status Updated">>, "None")
                /\ popup' = NoPopup
                /\ grid' = get_vehicles(vehicles_csv')
    /\ UNCHANGED <<users_csv, current_user, screen, added_users, probe, exists, fee_form>>

\* "Apply Status Change" in the vehicle details window; confirm is the
\* operator's answer to the yes/no dialog, when it is shown
update_vehicle_status(new_status_str, confirm) ==
    /\ popup.kind = "detail"
    /\ LET vehicle == popup.vehicle[1]
           new_is_available == (new_status_str = "Available")
           ask == new_is_available /\ Len(active_rentals(rentals_csv, vehicle)) > 0
       IN  IF new_is_available = vehicle.is_available
           THEN /\ event' = Event("update_vehicle_status", <<"No Change">>, "None")
                /\ UNCHANGED <<vehicles_csv, popup, grid>>
           ELSE IF ask /\ ~confirm
           THEN /\ event' = Event("update_vehicle_status", <<"Confirm Return">>, "None")
                /\ UNCHANGED <<vehicles_csv, popup, grid>>
           ELSE /\ vehicles_csv' =
                       update_vehicle(vehicles_csv,
                           [vehicle EXCEPT !.is_available = new_is_available])
                /\ event' = Event("update_vehicle_status",
                                 IF ask THEN <<"Confirm Return", "Status Updated">>
                                        ELSE <<"Status Updated">>, "None")
                /\ popup' = NoPopup
                /\ grid' = get_vehicles(vehicles_csv')
    /\ UNCHANGED <<users_csv, rentals_csv, current_user, screen, added_users, probe, exists, fee_form>>

\* mutant: the popup opens without looking at is_available
show_rent_popup_unguarded(i) ==
    /\ MainIdle
    /\ popup' = [kind |-> "rent", vehicle |-> <<grid[i]>>, rental |-> <<>>]
    /\ event' = Event("show_rent_popup", <<>>, "None")
    /\ UNCHANGED <<users_csv, vehicles_csv, rentals_csv, current_user, screen,
                   grid, added_users, probe, exists, fee_form>>

\* "Rent" on tile i
show_rent_popup(i) ==
    /\ MainIdle
    /\ IF ~grid[i].is_available
       THEN /\ event' = Event("show_rent_popup", <<"Cannot Rent">>, "None")
            /\ UNCHANGED popup
       ELSE /\ popup' = [kind |-> "rent", vehicle |-> <<grid[i]>>, rental |-> <<>>]
            /\ event' = Event("show_rent_popup", <<>>, "None")
    /\ UNCHANGED <<users_csv, vehicles_csv, rentals_csv, current_user, screen,
                   grid, added_users, probe, exists, fee_form>>

\* mutant: the vehicle is not written
confirm_rental_without_vehicle_write(e_id, e_name, e_address, e_tel, e_rent, e_return) ==
    /\ popup.kind = "rent"
    /\ LET vehicle == popup.vehicle[1]
           c_id == strip(e_id)
           c_name == strip(e_name)
           c_address == strip(e_address)
           c_tel == strip(e_tel)
           r_date == strip(e_rent)
           p_return_date == strip(e_return)
           new_rental == Rental(NewRentalId(rentals_csv), vehicle.vehicle_id,
                                c_id, c_name, c_address, c_tel, r_date,
                                p_return_date, "N/A", "Rented")
       IN  IF "" \in {c_id, c_name, c_address, c_tel, r_date, p_return_date}
           THEN /\ event' = Event("confirm_rental", <<"Input Error">>, "None")
                /\ UNCHANGED <<rentals_csv, vehicles_csv, popup, grid>>
           ELSE IF ~(strptime_ok(r_date) /\ strptime_ok(p_return_date))
           THEN /\ event' = Event("confirm_rental", <<"Date Format Error">>, "None")
                /\ UNCHANGED <<rentals_csv, vehicles_csv, popup, grid>>
           ELSE /\ Len(rentals_csv) < MaxRentals
                /\ rentals_csv' = add_rental(rentals_csv, new_rental)
                /\ vehicles_csv' = vehicles_csv
                /\ event' = Event("confirm_rental", <<"Rental Confirmed">>, "None")
                /\ popup' = NoPopup
                /\ grid' = get_vehicles(vehicles_csv')
    /\ UNCHANGED <<users_csv, current_user, screen, added_users, probe, exists, fee_form>>

\* "Confirm Rental" in the rent popup, with the six texts of its entries
confirm_rental(e_id, e_name, e_address, e_tel, e_rent, e_return) ==
    /\ popup.kind = "rent"
    /\ LET vehicle == popup.vehicle[1]
           c_id == strip(e_id)
           c_name == strip(e_name)
           c_address == strip(e_address)
           c_tel == strip(e_tel)
           r_date == strip(e_rent)
           p_return_date == strip(e_return)
           new_rental == Rental(NewRentalId(rentals_csv), vehicle.vehicle_id,
                                c_id, c_name, c_address, c_tel, r_date,
                                p_return_date, "N/A", "Rented")
       IN  IF "" \in {c_id, c_name, c_address, c_tel, r_date, p_return_date}
           THEN /\ event' = Event("confirm_rental", <<"Input Error">>, "None")
                /\ UNCHANGED <<rentals_csv, vehicles_csv, popup, grid>>
           ELSE IF ~(strptime_ok(r_date) /\ strptime_ok(p_return_date))
           THEN /\ event' = Event("confirm_rental", <<"Date Format Error">>, "None")
                /\ UNCHANGED <<rentals_csv, vehicles_csv, popup, grid>>
           ELSE /\ Len(rentals_csv) < MaxRentals
                /\ rentals_csv' = add_rental(rentals_csv, new_rental)
                /\ vehicles_csv' =
                       update_vehicle(vehicles_csv,
                                      [vehicle EXCEPT !.is_available = FALSE])
                /\ event' = Event("confirm_rental", <<"Rental Confirmed">>, "None")
                /\ popup' = NoPopup
                /\ grid' = get_vehicles(vehicles_csv')
    /\ UNCHANGED <<users_csv, current_user, screen, added_users, probe, exists, fee_form>>

\* "Confirm Rental" stopped between its two store calls: add_rental has
\* written rentals.csv and update_vehicle raises before vehicles.csv is
\* written (the file cannot be opened for writing).  Nothing catches the
\* exception inside the handler, so the dialog, destroy() and the refresh of
\* the main screen are not reached; the Vehicle object shared by the popup
\* and its tile already has is_available = False.
confirm_rental_interrupted(e_id, e_name, e_address, e_tel, e_rent, e_return) ==
    /\ popup.kind = "rent"
    /\ LET vehicle == popup.vehicle[1]
           c_id == strip(e_id)
           c_name == strip(e_name)
           c_address == strip(e_address)
           c_tel == strip(e_tel)
           r_date == strip(e_rent)
           p_return_date == strip(e_return)
           new_rental == Rental(NewRentalId(rentals_csv), vehicle.vehicle_id,
                                c_id, c_name, c_address, c_tel, r_date,
                                p_return_date, "N/A", "Rented")
       IN  /\ "" \notin {c_id, c_name, c_address, c_tel, r_date, p_return_date}
           /\ strptime_ok(r_date) /\ strptime_ok(p_return_date)
           /\ Len(rentals_csv) < MaxRentals
           /\ rentals_csv' = add_rental(rentals_csv, new_rental)
           /\ popup' = [popup EXCEPT !.vehicle = <<[vehicle EXCEPT !.is_available = FALSE]>>]
           /\ grid' = [k \in DOMAIN grid |->
                          IF grid[k].vehicle_id = vehicle.vehicle_id
                          THEN [grid[k] EXCEPT !.is_available = FALSE]
                          ELSE grid[k]]
           /\ event' = Event("confirm_rental", <<>>, "OSError")
    /\ UNCHANGED <<users_csv, vehicles_csv, current_user, screen, added_users,
                   probe, exists, fee_form>>

\* mutant: a rental whose vehicle is not found is shown with the first
\* vehicle of the catalogue
show_rental_details_for_update_first_vehicle(rental_id) ==
    /\ MainIdle
    /\ LET all_rentals == get_rentals(rentals_csv)
           ri == FirstIndex({k \in 1..Len(all_rentals) :
                    all_rentals[k].rental_id = rental_id})
           all_vehicles == get_vehicles(vehicles_csv)
           vi == FirstIndex({k \in 1..Len(all_vehicles) :
                    all_vehicles[k].vehicle_id = all_rentals[ri].vehicle_id})
       IN  IF ri = 0
           THEN /\ event' = Event("show_rental_details_for_update", <<"Error: rental not found">>, "None")
                /\ UNCHANGED popup
           ELSE /\ popup' = [kind |-> "confirm",
                             vehicle |-> <<all_vehicles[IF vi = 0 THEN 1 ELSE vi]>>,
                             rental |-> <<all_rentals[ri]>>]
                /\ event' = Event("show_rental_details_for_update", <<>>, "None")
    /\ UNCHANGED <<users_csv, vehicles_csv, rentals_csv, current_user, screen,
                   grid, added_users, probe, exists, fee_form>>

\* double click on a row of the rental history
show_rental_details_for_update(rental_id) ==
    /\ MainIdle
    /\ LET all_rentals == get_rentals(rentals_csv)
           ri == FirstIndex({k \in 1..Len(all_rentals) :
                    all_rentals[k].rental_id = rental_id})
           all_vehicles == get_vehicles(vehicles_csv)
           vi == FirstIndex({k \in 1..Len(all_vehicles) :
                    all_vehicles[k].vehicle_id = all_rentals[ri].vehicle_id})
       IN  IF ri = 0
           THEN /\ event' = Event("show_rental_details_for_update", <<"Error: rental not found">>, "None")
                /\ UNCHANGED popup
           ELSE IF vi = 0
           THEN /\ event' = Event("show_rental_details_for_update", <<"Error: vehicle not found">>, "None")
                /\ UNCHANGED popup
           ELSE /\ popup' = [kind |-> "confirm", vehicle |-> <<all_vehicles[vi]>>,
                             rental |-> <<all_rentals[ri]>>]
                /\ event' = Event("show_rental_details_for_update", <<>>, "None")
    /\ UNCHANGED <<users_csv, vehicles_csv, rentals_csv, current_user, screen,
                   grid, added_users, probe, exists, fee_form>>

\* mutant: the actual return date is not looked at
save_dates_ok_no_actual(rent_d, prop_ret_d, actual_ret_d) ==
    strptime_ok(rent_d) /\ strptime_ok(prop_ret_d)

\* the dates of a history edit pass its validation
save_dates_ok(rent_d, prop_ret_d, actual_ret_d) ==
    /\ strptime_ok(rent_d)
    /\ strptime_ok(prop_ret_d)
    /\ (upper(actual_ret_d) # "N/A" /\ actual_ret_d # "") => strptime_ok(actual_ret_d)

\* the dialogs of a saved history edit
save_dialogs(original_status, new_status) ==
    IF original_status = "Rented" /\ new_status = "Returned"
    THEN <<"Vehicle Returned", "Update Successful">>
    ELSE IF original_status = "Returned" /\ new_status = "Rented"
    THEN <<"Vehicle Rented Again", "Update Successful">>
    ELSE <<"Update Successful">>

\* mutant: a return does not touch the vehicle
save_vehicle_file_no_return(file, vehicle, original_status, new_status) ==
    IF original_status = "Returned" /\ new_status = "Rented"
    THEN update_vehicle(file, [vehicle EXCEPT !.is_available = FALSE])
    ELSE file

\* mutant: a forced correction does not touch the vehicle
save_vehicle_file_no_rerent(file, vehicle, original_status, new_status) ==
    IF original_status = "Rented" /\ new_status = "Returned"
    THEN update_vehicle(file, [vehicle EXCEPT !.is_available = TRUE])
    ELSE file

\* the vehicle file after a saved history edit
save_vehicle_file(file, vehicle, original_status, new_status) ==
    IF original_status = "Rented" /\ new_status = "Returned"
    THEN update_vehicle(file, [vehicle EXCEPT !.is_available = TRUE])
    ELSE IF original_status = "Returned" /\ new_status = "Rented"
    THEN update_vehicle(file, [vehicle EXCEPT !.is_available = FALSE])
    ELSE file

\* "Save Updates" in the rental details window.  The customer, address and
\* telephone entries keep the text the window was opened with unless edited;
\* the name, the dates and the status are the texts given.
save_rental_updates(e_name, e_rent, e_return, e_actual, new_status) ==
    /\ popup.kind = "confirm"
    /\ LET rental == popup.rental[1]
           vehicle == popup.vehicle[1]
           edited == [rental EXCEPT !.customer_id = strip(rental.customer_id),
                                    !.customer_name = strip(e_name),
                                    !.customer_address = strip(rental.customer_address),
                                    !.customer_tel = strip(rental.customer_tel)]
           rent_d == strip(e_rent)
           prop_ret_d == strip(e_return)
           actual_ret_d == strip(e_actual)
           original_status == rental.status
           saved == [edited EXCEPT !.rent_date = rent_d,
                                   !.proposed_return_date = prop_ret_d,
                                   !.actual_return_date = actual_ret_d,
                                   !.status = new_status]
       IN  IF ~save_dates_ok(rent_d, prop_ret_d, actual_ret_d)
           THEN /\ popup' = [popup EXCEPT !.rental = <<edited>>]
                /\ event' = Event("save_rental_updates", <<"Date Format Error">>, "None")
                /\ UNCHANGED <<rentals_csv, vehicles_csv, grid>>
           ELSE /\ rentals_csv' = update_rental(rentals_csv, saved)
                /\ vehicles_csv' =
                       save_vehicle_file(vehicles_csv, vehicle, original_status, new_status)
                /\ event' = Event("save_rental_updates",
                                 save_dialogs(original_status, new_status), "None")
                /\ popup' = NoPopup
                /\ grid' = get_vehicles(vehicles_csv')
    /\ UNCHANGED <<users_csv, current_user, screen, added_users, probe, exists, fee_form>>

\* mutant: closing the rent popup marks its vehicle unavailable
close_popup_reserving ==
    /\ popup.kind # "none"
    /\ popup' = NoPopup
    /\ event' = Event("WM_DELETE_WINDOW", <<>>, "None")
    /\ vehicles_csv' =
           IF popup.kind = "rent"
           THEN update_vehicle(vehicles_csv,
                               [popup.vehicle[1] EXCEPT !.is_available = FALSE])
           ELSE vehicles_csv
    /\ UNCHANGED <<users_csv, rentals_csv, current_user, screen,
                   grid, added_users, probe, exists, fee_form>>

\* WM_DELETE_WINDOW of the open popup
close_popup ==
    /\ popup.kind # "none"
    /\ popup' = NoPopup
    /\ event' = Event("WM_DELETE_WINDOW", <<>>, "None")
    /\ UNCHANGED <<users_csv, vehicles_csv, rentals_csv, current_user, screen,
                   grid, added_users, probe, exists, fee_form>>

---------------------------------------------------------------------------
(* Specifications *)

Accounts(Usernames, Passwords) ==
    \/ show_registration_screen
    \/ show_login_screen
    \/ \E u \in Usernames, p \in Passwords : login(u, p)
    \/ \E u \in Usernames, p \in Passwords : register_user(u, p)

Rentals ==
    \/ \E i \in 1..Len(grid) : show_vehicle_details_for_update(i)
    \/ \E s \in VehicleStatusOptions, confirm \in BOOLEAN : update_vehicle_status(s, confirm)
    \/ \E i \in 1..Len(grid) : show_rent_popup(i)
    \/ \E f \in RentForms :
            confirm_rental(f.id, f.name, f.address, f.tel, f.rent, f.return)
    \/ \E rental_id \in RentalIds : show_rental_details_for_update(rental_id)
    \/ \E f \in EditForms :
            save_rental_updates(f.name, f.rent, f.return, f.actual, f.status)
    \/ close_popup

\* the application: one staff account, then the rental screens
Next == Accounts(StaffUsernames, StaffPasswords) \/ Rentals

Spec == Init /\ [][Next]_vars

\* the application used for rental creation and for history edits that keep
\* the status or turn Rented into Returned: no direct vehicle-status edit and
\* no forced Returned -> Rented correction
NextNormal ==
    \/ Accounts(StaffUsernames, StaffPasswords)
    \/ \E i \in 1..Len(grid) : show_rent_popup(i)
    \/ \E f \in RentForms :
            confirm_rental(f.id, f.name, f.address, f.tel, f.rent, f.return)
    \/ \E rental_id \in RentalIds : show_rental_details_for_update(rental_id)
    \/ /\ popup.kind = "confirm"
       /\ \E f \in EditForms :
            /\ ~(popup.rental[1].status = "Returned" /\ f.status = "Rented")
            /\ save_rental_updates(f.name, f.rent, f.return, f.actual, f.status)
    \/ close_popup

SpecNormal == Init /\ [][NextNormal]_vars

\* the application when vehicles.csv can fail to open for writing during
\* a rental creation
NextInterrupted ==
    \/ Next
    \/ \E f \in RentForms :
            confirm_rental_interrupted(f.id, f.name, f.address, f.tel, f.rent, f.return)

SpecInterrupted == Init /\ [][NextInterrupted]_vars

\* the application started on a rental history kept from earlier runs, one
\* agreement of which references a vehicle the catalogue no longer lists
KeptHistory ==
    add_rental(<<>>,
        Rental("R1", "V3", "C1", "Ann", "Kandy", "071", "2025-01-01",
               "2025-01-04", "2025-01-04", "Returned"))

InitHistory ==
    /\ users_csv = <<>>
    /\ vehicles_csv = SeedVehicles
    /\ rentals_csv = KeptHistory
    /\ current_user = <<>>
    /\ screen = "login"
    /\ grid = <<>>
    /\ popup = NoPopup
    /\ event = Event("__init__", <<>>, "None")
    /\ added_users = <<>>
    /\ probe = NoProbe
    /\ exists = AllExist
    /\ fee_form = NoFeeForm

SpecHistory == InitHistory /\ [][Next]_vars

\* the account store: registration, login and direct add_user calls
NextAccounts ==
    \/ Accounts(UsernameEntries, PasswordEntries)
    \/ \E u \in UsernameEntries, p \in PasswordEntries : call_add_user(u, p)

SpecAccounts == Init /\ [][NextAccounts]_vars

\* what is typed into the registration screen: the entries are not trimmed,
\* so a blank is a username like any other
RegistrationUsernames == UsernameEntries \union {" "}

\* the account store written through the registration screen only
NextRegistration == Accounts(RegistrationUsernames, PasswordEntries)

SpecRegistration == Init /\ [][NextRegistration]_vars

---------------------------------------------------------------------------
(* Vehicle records taken through to_dict / from_dict and through the file *)

ProbeVehicles ==
    {Vehicle(id, t, "Toyota", "Corolla", y, r, img, a) :
        id \in {"V1", "V2"}, t \in {"Car", "Van"}, y \in {2019, 2020},
        r \in {PyFloat(50), PyInt(80)},
        img \in {"images/toyota_corolla.jpg", "images/placeholder.png"},
        a \in BOOLEAN}

InitRecords ==
    /\ users_csv = <<>>
    /\ vehicles_csv = <<>>
    /\ rentals_csv = <<>>
    /\ current_user = <<>>
    /\ screen = "login"
    /\ grid = <<>>
    /\ popup = NoPopup
    /\ event = Event("__init__", <<>>, "None")
    /\ added_users = <<>>
    /\ \E v \in ProbeVehicles : probe = [NoProbe EXCEPT !.vehicle = <<v>>]
    /\ exists = AllExist
    /\ fee_form = NoFeeForm

probe_to_dict ==
    /\ probe.dict = <<>>
    /\ probe' = [probe EXCEPT !.dict = <<Vehicle_to_dict(probe.vehicle[1])>>]
    /\ UNCHANGED <<users_csv, vehicles_csv, rentals_csv, current_user, screen,
                   grid, popup, event, added_users, exists, fee_form>>

probe_from_dict ==
    /\ probe.dict # <<>>
    /\ probe.from_dict = <<>>
    /\ probe' = [probe EXCEPT !.from_dict = <<Vehicle_from_dict(probe.dict[1])>>]
    /\ UNCHANGED <<users_csv, vehicles_csv, rentals_csv, current_user, screen,
                   grid, popup, event, added_users, exists, fee_form>>

probe_write ==
    /\ probe.file = <<>>
    /\ probe' = [probe EXCEPT !.file = write_vehicles_to_csv(probe.vehicle)]
    /\ UNCHANGED <<users_csv, vehicles_csv, rentals_csv, current_user, screen,
                   grid, popup, event, added_users, exists, fee_form>>

probe_read ==
    /\ probe.file # <<>>
    /\ probe.from_file = <<>>
    /\ probe' = [probe EXCEPT !.from_file = get_vehicles(probe.file)]
    /\ UNCHANGED <<users_csv, vehicles_csv, rentals_csv, current_user, screen,
                   grid, popup, event, added_users, exists, fee_form>>

NextRecords == probe_to_dict \/ probe_from_dict \/ probe_write \/ probe_read

SpecRecords == InitRecords /\ [][NextRecords]_vars

---------------------------------------------------------------------------
(* The record store on its own: DatabaseManager called on files that may be *)
(* absent and that may hold several rows with one identity                  *)

\* the three files as the store sees them; an absent file has no rows
Files ==
    [exists |-> exists, users |-> users_csv, vehicles |-> vehicles_csv,
     rentals |-> rentals_csv]

\* mutant: every file is opened for writing, present or not
created_files_overwriting(fs) ==
    [exists |-> AllExist, users |-> <<>>, vehicles |-> <<>>, rentals |-> <<>>]

\* _create_csv_if_not_exists: an absent file is created with its header and
\* no rows, a present file is not opened
created_files(fs) ==
    [exists |-> AllExist,
     users |-> IF fs.exists.users THEN fs.users ELSE <<>>,
     vehicles |-> IF fs.exists.vehicles THEN fs.vehicles ELSE <<>>,
     rentals |-> IF fs.exists.rentals THEN fs.rentals ELSE <<>>]

create_csv_if_not_exists ==
    LET fs == created_files(Files)
    IN  /\ exists' = fs.exists
        /\ users_csv' = fs.users
        /\ vehicles_csv' = fs.vehicles
        /\ rentals_csv' = fs.rentals
        /\ event' = Event("_create_csv_if_not_exists", <<>>, "None")
        /\ UNCHANGED <<current_user, screen, grid, popup, added_users, probe, fee_form>>

\* DatabaseManager.update_vehicle(updated_vehicle); open(..., 'w') creates
\* the file when it is absent
call_update_vehicle(updated_vehicle) ==
    /\ vehicles_csv' = update_vehicle(vehicles_csv, updated_vehicle)
    /\ exists' = [exists EXCEPT !.vehicles = TRUE]
    /\ event' = Event("update_vehicle", <<>>, "None")
    /\ UNCHANGED <<users_csv, rentals_csv, current_user, screen, grid, popup,
                   added_users, probe, fee_form>>

\* DatabaseManager.update_rental(updated_rental)
call_update_rental(updated_rental) ==
    /\ rentals_csv' = update_rental(rentals_csv, updated_rental)
    /\ exists' = [exists EXCEPT !.rentals = TRUE]
    /\ event' = Event("update_rental", <<>>, "None")
    /\ UNCHANGED <<users_csv, vehicles_csv, current_user, screen, grid, popup,
                   added_users, probe, fee_form>>

SeqsUpTo(S, n) == UNION {[1..k -> S] : k \in 0..n}

\* the records the files hold at first: available vehicles and Rented
\* agreements, several of which may carry the same identity
StoreVehicles ==
    {Vehicle(id, "Car", "Toyota", "Corolla", 2020, PyFloat(50),
             "images/toyota_corolla.jpg", TRUE) : id \in {"V1", "V2"}}

StoreRentals ==
    {Rental(id, "V1", "C1", "Ann", "Kandy", "071", "2025-01-01", "2025-01-04",
            "N/A", "Rented") : id \in {"R1", "R2"}}

\* the entities handed to update_vehicle and update_rental: unavailable
\* vehicles and Returned agreements; V3 and R3 are stored nowhere
UpdatedVehicles ==
    {Vehicle(id, "Car", "Toyota", "Corolla", 2020, PyFloat(50),
             "images/toyota_corolla.jpg", FALSE) : id \in {"V1", "V2", "V3"}}

UpdatedRentals ==
    {Rental(id, "V1", "C1", "Ann", "Kandy", "071", "2025-01-01", "2025-01-04",
            "2025-01-04", "Returned") : id \in {"R1", "R2", "R3"}}

UserFiles == {<<>>, write_users_to_csv(<<User("amal", "pw1")>>)}

VehicleFiles ==
    {write_vehicles_to_csv(q) : q \in SeqsUpTo(StoreVehicles, MaxRows)}

RentalFiles ==
    {write_rentals_to_csv(q) : q \in SeqsUpTo(StoreRentals, MaxRows)}

InitStore ==
    /\ exists \in [Collections -> BOOLEAN]
    /\ fee_form = NoFeeForm
    /\ users_csv \in (IF exists.users THEN UserFiles ELSE {<<>>})
    /\ vehicles_csv \in (IF exists.vehicles THEN VehicleFiles ELSE {<<>>})
    /\ rentals_csv \in (IF exists.rentals THEN RentalFiles ELSE {<<>>})
    /\ current_user = <<>>
    /\ screen = "login"
    /\ grid = <<>>
    /\ popup = NoPopup
    /\ event = Event("__init__", <<>>, "None")
    /\ added_users = <<>>
    /\ probe = NoProbe

NextStore ==
    \/ create_csv_if_not_exists
    \/ \E v \in UpdatedVehicles : call_update_vehicle(v)
    \/ \E r \in UpdatedRentals : call_update_rental(r)

SpecStore == InitStore /\ [][NextStore]_vars

---------------------------------------------------------------------------
(* The fee preview of the rent popup on its own *)

is_leap(y) == y % 4 = 0 /\ (y % 100 # 0 \/ y % 400 = 0)

days_in_month(y, m) ==
    IF m = 2 THEN (IF is_leap(y) THEN 29 ELSE 28)
    ELSE IF m \in {4, 6, 9, 11} THEN 30 ELSE 31

\* the years the typed dates fall in
DateYears == {2024, 2025}

\* the dates of those years, as <<year, month, day>>
CivilDates ==
    {c \in DateYears \X (1..12) \X (1..31) : c[3] <= days_in_month(c[1], c[2])}

\* a month or day number as %m and %d read it: one digit, or two digits
\* with a leading zero
TwoDigitTexts(n) ==
    IF n < 10 THEN {Digit(n), "0" \o Digit(n)} ELSE {IntToStr(n)}

\* the texts that datetime.strptime(text, "%Y-%m-%d") reads as the date c
DateTexts(c) ==
    {IntToStr(c[1]) \o "-" \o m \o "-" \o d :
        m \in TwoDigitTexts(c[2]), d \in TwoDigitTexts(c[3])}

\* every text that is read as a date, paired with that date
ParsedDates == UNION {{<<t, c>> : t \in DateTexts(c)} : c \in CivilDates}

\* datetime.strptime(text, "%Y-%m-%d"): <<date>>, or <<>> for ValueError
strptime(text) ==
    LET hits == {e \in ParsedDates : e[1] = text}
    IN  IF hits = {} THEN <<>> ELSE <<(CHOOSE e \in hits : TRUE)[2]>>

\* days before the first day of year y, and before the first day of month m
days_before_year(y) ==
    (y - 1) * 365 + (y - 1) \div 4 - (y - 1) \div 100 + (y - 1) \div 400

RECURSIVE days_before_month(_, _)
days_before_month(y, m) ==
    IF m = 1 THEN 0 ELSE days_before_month(y, m - 1) + days_in_month(y, m - 1)

\* the day number of a date, as datetime subtracts dates
toordinal(c) == days_before_year(c[1]) + days_before_month(c[1], c[2]) + c[3]

\* mutant: the day count is clamped at zero
fee_days_clamped_at_zero(rent_dt, return_dt) ==
    LET days == toordinal(return_dt) - toordinal(rent_dt)
    IN  IF days < 0 THEN 0 ELSE days

\* (return_dt - rent_dt).days, raised to 1 when it is less
fee_days(rent_dt, return_dt) ==
    LET days == toordinal(return_dt) - toordinal(rent_dt)
    IN  IF days < 1 THEN 1 ELSE days

\* the text update_total_fee puts in total_fee_var; the rates of the
\* catalogue are whole, so "{total:.2f}" ends in .00
total_fee_text(rent_date, return_date, daily_rate) ==
    LET rent_dt == strptime(strip(rent_date))
        return_dt == strptime(strip(return_date))
    IN  IF rent_dt = <<>> \/ return_dt = <<>>
        THEN "Total Fee: Rs0.00"
        ELSE LET days == fee_days(rent_dt[1], return_dt[1])
                 total == days * daily_rate
             IN  "Total Fee for " \o IntToStr(days) \o " day(s): Rs"
                     \o IntToStr(total) \o ".00"

\* a key released in one of the two date entries, which now hold these texts
update_total_fee(e_rent, e_return) ==
    /\ popup.kind = "rent"
    /\ fee_form' = [rent_date_entry |-> e_rent, return_date_entry |-> e_return,
                    total_fee_var |->
                        total_fee_text(e_rent, e_return, popup.vehicle[1].daily_rate)]
    /\ UNCHANGED <<users_csv, vehicles_csv, rentals_csv, current_user, screen,
                   grid, popup, event, added_users, probe, exists>>

\* what is typed into the two date entries: dates of a leap and a common
\* year, with and without leading zeros, and texts that are no dates
FeeDateEntries ==
    {"2024-02-28", "2024-03-01", "2024-12-31", "2025-01-01", "2025-01-04",
     "2025-1-4", "2025-03-01", "", "01/01/2025", "2025-02-30"}

\* the rent popup just opened on a vehicle of the catalogue: the rent date
\* entry holds today's date, the return date entry is empty, and
\* update_total_fee has run once
InitFee ==
    /\ users_csv = write_users_to_csv(<<User("amal", "pw1")>>)
    /\ vehicles_csv = SeedVehicles
    /\ rentals_csv = <<>>
    /\ current_user = <<User("amal", "pw1")>>
    /\ screen = "main"
    /\ grid = get_vehicles(SeedVehicles)
    /\ \E i \in 1..Len(SeedVehicles) :
          /\ popup = [kind |-> "rent", vehicle |-> <<get_vehicles(SeedVehicles)[i]>>,
                      rental |-> <<>>]
          /\ fee_form = [rent_date_entry |-> "2025-01-01", return_date_entry |-> "",
                         total_fee_var |->
                             total_fee_text("2025-01-01", "",
                                            get_vehicles(SeedVehicles)[i].daily_rate)]
    /\ event = Event("show_rent_popup", <<>>, "None")
    /\ added_users = <<User("amal", "pw1")>>
    /\ probe = NoProbe
    /\ exists = AllExist

NextFee == \E e_rent \in FeeDateEntries, e_return \in FeeDateEntries :
               update_total_fee(e_rent, e_return)

SpecFee == InitFee /\ [][NextFee]_vars

---------------------------------------------------------------------------
(* What the files hold, read from their rows *)

RowOf(file, key, id) == file[CHOOSE i \in 1..Len(file) : file[i][key] = id]

Stored(file, key, id) == \E i \in 1..Len(file) : file[i][key] = id

StoredAvailable(file, vehicle_id) ==
    Stored(file, "vehicle_id", vehicle_id)
        /\ RowOf(file, "vehicle_id", vehicle_id).is_available = "True"

StoredUnavailable(file, vehicle_id) ==
    Stored(file, "vehicle_id", vehicle_id)
        /\ RowOf(file, "vehicle_id", vehicle_id).is_available = "False"

\* the number of Rented agreements in file that reference the vehicle
RentedCount(file, vehicle_id) ==
    Cardinality({i \in 1..Len(file) :
                    file[i].vehicle_id = vehicle_id /\ file[i].status = "Rented"})

VehicleIds == {vehicles_csv[i].vehicle_id : i \in 1..Len(vehicles_csv)}

Asked(e) == \E i \in 1..Len(e.dialogs) : e.dialogs[i] = "Confirm Return"

\* the typed texts that are calendar dates written YYYY-MM-DD
CalendarDates == {"2025-01-01", "2025-01-04"}

\* a rent form whose six texts are non-empty once trimmed and whose two
\* dates are calendar dates
RentFormComplete(f) ==
    /\ \A k \in DOMAIN f : strip(f[k]) # ""
    /\ strip(f.rent) \in CalendarDates
    /\ strip(f.return) \in CalendarDates

\* an edit form with valid dates: rent and proposed return dates are calendar
\* dates, the actual return date is a calendar date or N/A
EditDatesValid(f) ==
    /\ strip(f.rent) \in CalendarDates
    /\ strip(f.return) \in CalendarDates
    /\ strip(f.actual) \in CalendarDates \/ strip(f.actual) = "N/A"

\* the texts the history edit takes in place of an actual return date:
\* N/A in any letter case, or nothing
AcceptedSentinels == {"N/A", "n/a", ""}

\* an edit form that passes the validation of the history edit
EditDatesAccepted(f) ==
    /\ strip(f.rent) \in CalendarDates
    /\ strip(f.return) \in CalendarDates
    /\ strip(f.actual) \in CalendarDates \union AcceptedSentinels

---------------------------------------------------------------------------
(* Rental lifecycle: C1 - C6, checked under Spec *)

\* C1: confirm_rental for an available vehicle, with the six texts non-empty
\* and both dates valid, appends exactly one Rental Agreement that references
\* the vehicle with status Rented and actual_return_date "N/A", leaves the
\* agreements already stored as they were, and stores the vehicle unavailable.
C1_ConfirmRentalStoresAgreement ==
    [][popup.kind = "rent" => \A f \in RentForms :
        (/\ RentFormComplete(f)
         /\ StoredAvailable(vehicles_csv, popup.vehicle[1].vehicle_id)
         /\ confirm_rental(f.id, f.name, f.address, f.tel, f.rent, f.return))
        => LET n == Len(rentals_csv)
               vid == popup.vehicle[1].vehicle_id
           IN  /\ Len(rentals_csv') = n + 1
               /\ SubSeq(rentals_csv', 1, n) = rentals_csv
               /\ rentals_csv'[n + 1].vehicle_id = vid
               /\ rentals_csv'[n + 1].status = "Rented"
               /\ rentals_csv'[n + 1].actual_return_date = "N/A"
               /\ StoredUnavailable(vehicles_csv', vid)]_vars

C1_Witness ==
    /\ event.op = "confirm_rental"
    /\ event.dialogs = <<"Rental Confirmed">>
    /\ Len(rentals_csv) > 0
    /\ rentals_csv[Len(rentals_csv)].status = "Rented"
    /\ rentals_csv[Len(rentals_csv)].actual_return_date = "N/A"
    /\ StoredUnavailable(vehicles_csv, rentals_csv[Len(rentals_csv)].vehicle_id)

\* C2 as claimed: in every reachable state a vehicle is stored unavailable if
\* and only if exactly one Rented agreement references it.
C2_AvailabilityMatchesRentals ==
    \A vid \in VehicleIds :
        StoredUnavailable(vehicles_csv, vid) <=> RentedCount(rentals_csv, vid) = 1

\* the correspondence: a vehicle is unavailable exactly when one Rented
\* agreement references it and available exactly when none does
InSync ==
    \A vid \in VehicleIds :
        /\ RentedCount(rentals_csv, vid) <= 1
        /\ StoredUnavailable(vehicles_csv, vid) <=> RentedCount(rentals_csv, vid) = 1
        /\ StoredAvailable(vehicles_csv, vid) <=> RentedCount(rentals_csv, vid) = 0

\* a step in which a direct vehicle-status edit was applied
DirectEditApplied ==
    /\ event'.op = "update_vehicle_status"
    /\ vehicles_csv' # vehicles_csv

\* a step in which a history edit turned a Returned agreement into a Rented one
ForcedReRent ==
    \E i \in 1..Len(rentals_csv) :
        /\ rentals_csv[i].status = "Returned"
        /\ Len(rentals_csv') >= i
        /\ rentals_csv'[i].status = "Rented"

\* C2 amended: the correspondence holds initially and every step other than
\* an applied direct vehicle-status edit and a forced Returned -> Rented
\* correction preserves it.
C2_TransitionsKeepSync ==
    InSync /\ [][(InSync /\ ~DirectEditApplied /\ ~ForcedReRent) => InSync']_vars

C2_Witness ==
    /\ InSync
    /\ event.op = "save_rental_updates"
    /\ event.dialogs = <<"Vehicle Returned", "Update Successful">>
    /\ \E i \in 1..Len(rentals_csv) : rentals_csv[i].status = "Rented"
    /\ \E i \in 1..Len(rentals_csv) : rentals_csv[i].status = "Returned"

\* C3: show_rent_popup for a vehicle whose is_available is false opens no rent
\* popup and leaves both files as they were; and no step appends a Rental
\* Agreement for a vehicle that is stored unavailable.
C3_UnavailableVehicleNotRented ==
    [][/\ \A i \in 1..Len(grid) :
            (show_rent_popup(i) /\ ~grid[i].is_available)
            => /\ popup'.kind # "rent"
               /\ rentals_csv' = rentals_csv
               /\ vehicles_csv' = vehicles_csv
       /\ Len(rentals_csv') > Len(rentals_csv)
            => StoredAvailable(vehicles_csv,
                               rentals_csv'[Len(rentals_csv')].vehicle_id)]_vars

C3_Witness ==
    /\ event.op = "show_rent_popup"
    /\ event.dialogs = <<"Cannot Rent">>
    /\ popup.kind = "none"
    /\ \E vid \in VehicleIds : StoredUnavailable(vehicles_csv, vid)

\* C4: a saved history edit with valid dates that changes the status from
\* Rented to Returned stores the agreement as Returned and the referenced
\* vehicle as available, and asks no yes/no question.
C4_ReturnFreesVehicle ==
    [][(/\ popup.kind = "confirm"
        /\ RowOf(rentals_csv, "rental_id", popup.rental[1].rental_id).status = "Rented")
       => \A f \in EditForms :
        (/\ f.status = "Returned"
         /\ EditDatesValid(f)
         /\ save_rental_updates(f.name, f.rent, f.return, f.actual, f.status))
        => /\ RowOf(rentals_csv', "rental_id", popup.rental[1].rental_id).status = "Returned"
           /\ StoredAvailable(vehicles_csv', popup.rental[1].vehicle_id)
           /\ ~Asked(event')]_vars

C4_Witness ==
    /\ event.op = "save_rental_updates"
    /\ event.dialogs = <<"Vehicle Returned", "Update Successful">>
    /\ \E i \in 1..Len(rentals_csv) :
          /\ rentals_csv[i].status = "Returned"
          /\ StoredAvailable(vehicles_csv, rentals_csv[i].vehicle_id)

\* C5: a direct edit that selects Available for an unavailable vehicle which a
\* Rented agreement references asks the yes/no question; when the operator
\* declines, the vehicle stays stored unavailable and both files are unchanged.
C5_SetAvailableAsksFirst ==
    [][\A confirm \in BOOLEAN :
        (/\ update_vehicle_status("Available", confirm)
         /\ StoredUnavailable(vehicles_csv, popup.vehicle[1].vehicle_id)
         /\ RentedCount(rentals_csv, popup.vehicle[1].vehicle_id) >= 1)
        => /\ Asked(event')
           /\ ~confirm => /\ StoredUnavailable(vehicles_csv', popup.vehicle[1].vehicle_id)
                          /\ vehicles_csv' = vehicles_csv
                          /\ rentals_csv' = rentals_csv]_vars

C5_Witness ==
    /\ event.op = "update_vehicle_status"
    /\ event.dialogs = <<"Confirm Return">>
    /\ popup.kind = "detail"
    /\ StoredUnavailable(vehicles_csv, popup.vehicle[1].vehicle_id)
    /\ RentedCount(rentals_csv, popup.vehicle[1].vehicle_id) >= 1

\* C6: a saved history edit that changes the status from Returned to Rented
\* stores the agreement as Rented and the referenced vehicle as unavailable,
\* and asks no yes/no question.
C6_ForcedReRentTakesVehicle ==
    [][(/\ popup.kind = "confirm"
        /\ RowOf(rentals_csv, "rental_id", popup.rental[1].rental_id).status = "Returned")
       => \A f \in EditForms :
        (/\ f.status = "Rented"
         /\ EditDatesValid(f)
         /\ save_rental_updates(f.name, f.rent, f.return, f.actual, f.status))
        => /\ RowOf(rentals_csv', "rental_id", popup.rental[1].rental_id).status = "Rented"
           /\ StoredUnavailable(vehicles_csv', popup.rental[1].vehicle_id)
           /\ ~Asked(event')]_vars

C6_Witness ==
    /\ event.op = "save_rental_updates"
    /\ event.dialogs = <<"Vehicle Rented Again", "Update Successful">>
    /\ \E i \in 1..Len(rentals_csv) :
          /\ rentals_csv[i].status = "Rented"
          /\ StoredUnavailable(vehicles_csv, rentals_csv[i].vehicle_id)

---------------------------------------------------------------------------
(* Account store: C7 - C9, checked under SpecAccounts *)

\* C7: add_user with a username that is already stored returns False and
\* leaves the rows of the account file (usernames, passwords, order) unchanged.
C7_DuplicateUsernameRejected ==
    [][\A u \in UsernameEntries, p \in PasswordEntries :
        (call_add_user(u, p) /\ Stored(users_csv, "username", u))
        => /\ event'.ret = "False"
           /\ users_csv' = users_csv]_vars

C7_Witness ==
    /\ event.op = "add_user"
    /\ event.ret = "False"
    /\ Len(users_csv) >= 1

\* C8: starting from the empty account file, get_users returns exactly the
\* accounts for which add_user returned True, each with the password it was
\* appended with, in append order.
C8_LoadedEqualsAppended == get_users(users_csv) = added_users

C8_Witness ==
    /\ Len(added_users) = 2
    /\ added_users[1].password # added_users[2].password
    /\ event.op = "add_user"
    /\ event.ret = "True"

\* C9: no two stored accounts share a username.
C9_UsernamesUnique ==
    \A i, j \in 1..Len(users_csv) :
        i # j => users_csv[i].username # users_csv[j].username

C9_Witness ==
    /\ Len(users_csv) = 2
    /\ event.op = "register_user"
    /\ event.dialogs = <<"Error: already exists">>

---------------------------------------------------------------------------
(* Vehicle records: C10, checked under SpecRecords *)

\* C10: Vehicle.from_dict(Vehicle.to_dict(v)) has the same value as v in every
\* field, is_available included, for available and unavailable vehicles.
C10_RecordRoundTrip ==
    probe.from_dict # <<>> => probe.from_dict[1] = probe.vehicle[1]

\* every field other than is_available does come back, and so does the whole
\* record when it goes through the file, where the boolean is written as text
RecordSurvivesExceptAvailability ==
    /\ probe.from_dict # <<>> =>
          [probe.from_dict[1] EXCEPT !.is_available = probe.vehicle[1].is_available]
              = probe.vehicle[1]
    /\ probe.from_file # <<>> => probe.from_file = probe.vehicle

---------------------------------------------------------------------------
(* Record store: C11 - C13, checked under SpecStore *)

\* position of the first row of file whose key column holds id
FirstMatch(file, key, id) ==
    CHOOSE i \in 1..Len(file) :
        file[i][key] = id /\ \A j \in 1..(i - 1) : file[j][key] # id

\* C11: update_vehicle and update_rental, given an entity whose identity some
\* stored record has, replace the first such record by the entity and leave
\* every other record, the order and the number of records as they were.
C11_UpdateReplacesFirstMatch ==
    [][/\ event'.op = "update_vehicle" => \A v \in UpdatedVehicles :
            (call_update_vehicle(v) /\ Stored(vehicles_csv, "vehicle_id", v.vehicle_id))
            => LET i == FirstMatch(vehicles_csv, "vehicle_id", v.vehicle_id)
               IN  /\ Len(vehicles_csv') = Len(vehicles_csv)
                   /\ get_vehicles(vehicles_csv')[i] = v
                   /\ \A j \in 1..Len(vehicles_csv) :
                          j # i => vehicles_csv'[j] = vehicles_csv[j]
       /\ event'.op = "update_rental" => \A r \in UpdatedRentals :
            (call_update_rental(r) /\ Stored(rentals_csv, "rental_id", r.rental_id))
            => LET i == FirstMatch(rentals_csv, "rental_id", r.rental_id)
               IN  /\ Len(rentals_csv') = Len(rentals_csv)
                   /\ get_rentals(rentals_csv')[i] = r
                   /\ \A j \in 1..Len(rentals_csv) :
                          j # i => rentals_csv'[j] = rentals_csv[j]]_vars

\* both files hold a replaced first record and a later record of the same
\* identity that was left alone
C11_Witness ==
    /\ event.op = "update_rental"
    /\ Len(rentals_csv) = 3
    /\ rentals_csv[1].rental_id = "R1" /\ rentals_csv[1].status = "Returned"
    /\ rentals_csv[2].rental_id = "R2" /\ rentals_csv[2].status = "Rented"
    /\ rentals_csv[3].rental_id = "R1" /\ rentals_csv[3].status = "Rented"
    /\ Len(vehicles_csv) = 2
    /\ vehicles_csv[1].vehicle_id = "V1" /\ vehicles_csv[1].is_available = "False"
    /\ vehicles_csv[2].vehicle_id = "V1" /\ vehicles_csv[2].is_available = "True"

\* C12: update_vehicle and update_rental, given an entity whose identity no
\* stored record has, leave the records of all three collections as they
\* were, return None and show nothing.
C12_UpdateWithoutMatchIsNoOp ==
    [][/\ event'.op = "update_vehicle" => \A v \in UpdatedVehicles :
            (call_update_vehicle(v) /\ ~Stored(vehicles_csv, "vehicle_id", v.vehicle_id))
            => /\ vehicles_csv' = vehicles_csv
               /\ rentals_csv' = rentals_csv
               /\ users_csv' = users_csv
               /\ event'.ret = "None" /\ event'.dialogs = <<>>
       /\ event'.op = "update_rental" => \A r \in UpdatedRentals :
            (call_update_rental(r) /\ ~Stored(rentals_csv, "rental_id", r.rental_id))
            => /\ rentals_csv' = rentals_csv
               /\ vehicles_csv' = vehicles_csv
               /\ users_csv' = users_csv
               /\ event'.ret = "None" /\ event'.dialogs = <<>>]_vars

\* update_vehicle has just run on a file with rows and every row is still
\* available: the entity given (an unavailable vehicle) matched none of them
C12_Witness ==
    /\ event.op = "update_vehicle"
    /\ Len(vehicles_csv) = 2
    /\ \A i \in 1..Len(vehicles_csv) : vehicles_csv[i].is_available = "True"

---------------------------------------------------------------------------
(* Rejected input and frame conditions: C14 - C19 *)

\* C14: confirm_rental with one of the six texts empty once trimmed, or with
\* a rent date or proposed return date that is not a calendar date, leaves
\* rentals.csv and vehicles.csv as they were.
C14_RejectedRentalWritesNothing ==
    [][popup.kind = "rent" => \A f \in RentForms :
        (/\ ~RentFormComplete(f)
         /\ confirm_rental(f.id, f.name, f.address, f.tel, f.rent, f.return))
        => /\ rentals_csv' = rentals_csv
           /\ vehicles_csv' = vehicles_csv]_vars

C14_Witness ==
    /\ event.op = "confirm_rental"
    /\ event.dialogs = <<"Date Format Error">>
    /\ popup.kind = "rent"
    /\ StoredAvailable(vehicles_csv, popup.vehicle[1].vehicle_id)
    /\ RentedCount(rentals_csv, popup.vehicle[1].vehicle_id) = 0

\* C15: save_rental_updates with a rent date or proposed return date that is
\* not a calendar date, or an actual return date that is neither a calendar
\* date nor an accepted sentinel, leaves rentals.csv (every field of the
\* agreement) and vehicles.csv as they were.
C15_RejectedEditWritesNothing ==
    [][popup.kind = "confirm" => \A f \in EditForms :
        (/\ ~EditDatesAccepted(f)
         /\ save_rental_updates(f.name, f.rent, f.return, f.actual, f.status))
        => /\ rentals_csv' = rentals_csv
           /\ vehicles_csv' = vehicles_csv]_vars

\* the rejected edit blanked the customer name of the Rental object the
\* window holds, and the stored agreement still carries the name
C15_Witness ==
    /\ event.op = "save_rental_updates"
    /\ event.dialogs = <<"Date Format Error">>
    /\ popup.kind = "confirm"
    /\ popup.rental[1].customer_name = ""
    /\ RowOf(rentals_csv, "rental_id", popup.rental[1].rental_id).customer_name = "Ann"

\* C16 (checked under SpecHistory): show_rental_details_for_update for a
\* rental id that rentals.csv does not hold, or for an agreement whose
\* vehicle_id vehicles.csv does not hold, shows an error, opens no window and
\* leaves the three files as they were.
C16_NotFoundAborts ==
    [][MainIdle => \A id \in RentalIds :
        (/\ \/ ~Stored(rentals_csv, "rental_id", id)
            \/ ~Stored(vehicles_csv, "vehicle_id",
                       RowOf(rentals_csv, "rental_id", id).vehicle_id)
         /\ show_rental_details_for_update(id))
        => /\ event'.dialogs \in {<<"Error: rental not found">>,
                                  <<"Error: vehicle not found">>}
           /\ popup' = NoPopup
           /\ users_csv' = users_csv
           /\ vehicles_csv' = vehicles_csv
           /\ rentals_csv' = rentals_csv]_vars

C16_Witness ==
    /\ event.op = "show_rental_details_for_update"
    /\ event.dialogs = <<"Error: vehicle not found">>
    /\ popup = NoPopup
    /\ \E i \in 1..Len(rentals_csv) :
          ~Stored(vehicles_csv, "vehicle_id", rentals_csv[i].vehicle_id)

\* C17: update_vehicle_status with the status the vehicle already has writes
\* neither vehicles.csv nor rentals.csv and shows "No Change".
C17_SameStatusIsNoChange ==
    [][popup.kind = "detail" => \A s \in VehicleStatusOptions, confirm \in BOOLEAN :
        (/\ IF s = "Available"
            THEN StoredAvailable(vehicles_csv, popup.vehicle[1].vehicle_id)
            ELSE StoredUnavailable(vehicles_csv, popup.vehicle[1].vehicle_id)
         /\ update_vehicle_status(s, confirm))
        => /\ vehicles_csv' = vehicles_csv
           /\ rentals_csv' = rentals_csv
           /\ event'.dialogs = <<"No Change">>]_vars

C17_Witness ==
    /\ event.op = "update_vehicle_status"
    /\ event.dialogs = <<"No Change">>
    /\ popup.kind = "detail"
    /\ StoredUnavailable(vehicles_csv, popup.vehicle[1].vehicle_id)

\* C18: no step removes a stored Rental Agreement or changes its rental_id or
\* vehicle_id: after every step rentals.csv holds, for each agreement it held
\* before, a record with the same rental_id and vehicle_id.
C18_RentalsAreKept ==
    [][\A i \in 1..Len(rentals_csv) :
          \E j \in 1..Len(rentals_csv') :
              /\ rentals_csv'[j].rental_id = rentals_csv[i].rental_id
              /\ rentals_csv'[j].vehicle_id = rentals_csv[i].vehicle_id]_vars

\* two agreements are stored, the older one edited after the newer was made
C18_Witness ==
    /\ event.op = "save_rental_updates"
    /\ event.dialogs = <<"Vehicle Returned", "Update Successful">>
    /\ Len(rentals_csv) = 2
    /\ rentals_csv[1].status = "Returned"
    /\ rentals_csv[1].vehicle_id # rentals_csv[2].vehicle_id

\* C19: no step adds or removes a row of vehicles.csv or changes a column
\* other than is_available, and is_available changes only in the row of the
\* vehicle the open window is about.
C19_OnlyAvailabilityChanges ==
    [][/\ Len(vehicles_csv') = Len(vehicles_csv)
       /\ \A i \in 1..Len(vehicles_csv) :
            /\ [vehicles_csv'[i] EXCEPT !.is_available = vehicles_csv[i].is_available]
                   = vehicles_csv[i]
            /\ vehicles_csv'[i].is_available # vehicles_csv[i].is_available
                   => /\ popup.kind # "none"
                      /\ popup.vehicle[1].vehicle_id = vehicles_csv[i].vehicle_id]_vars

C19_Witness ==
    /\ event.op = "update_vehicle_status"
    /\ event.dialogs = <<"Status Updated">>
    /\ StoredUnavailable(vehicles_csv, "V2")
    /\ StoredAvailable(vehicles_csv, "V1")
    /\ Len(rentals_csv) = 1

---------------------------------------------------------------------------
(* Stored actual return date: C20, checked under Spec *)

\* C20: in every reachable state the actual_return_date of every stored
\* Rental Agreement is a calendar date or exactly the text "N/A".
C20_ActualReturnIsDateOrSentinel ==
    \A i \in 1..Len(rentals_csv) :
        rentals_csv[i].actual_return_date \in CalendarDates \union {"N/A"}

\* what does hold: the stored text is one the validation of the history edit
\* lets through, a calendar date or an accepted sentinel as it was typed
StoredActualReturnWasAccepted ==
    \A i \in 1..Len(rentals_csv) :
        rentals_csv[i].actual_return_date \in CalendarDates \union AcceptedSentinels

---------------------------------------------------------------------------
(* Fee preview: C21, checked under SpecFee *)

\* the typed texts that are dates, numbered by day from 2024-12-31
DayNumber ==
    [t \in {"2024-02-28", "2024-03-01", "2024-12-31", "2025-01-01", "2025-01-04",
            "2025-1-4", "2025-03-01"} |->
        CASE t = "2024-02-28" -> 0 - 307
          [] t = "2024-03-01" -> 0 - 305
          [] t = "2024-12-31" -> 0
          [] t = "2025-01-01" -> 1
          [] t \in {"2025-01-04", "2025-1-4"} -> 4
          [] t = "2025-03-01" -> 60]

FeeLabel(days, total) ==
    "Total Fee for " \o IntToStr(days) \o " day(s): Rs" \o IntToStr(total) \o ".00"

\* C21: for two dates the fee label shows days = max(1, return - rent) and
\* days * daily_rate, so 2025-01-01 to 2025-01-04 at rate 50 shows 3 days and
\* 150.00 and a return on or before the rent date shows 1 day; when one of
\* the texts is no date it shows the zero fee.
C21_FeePreview ==
    fee_form # NoFeeForm =>
        LET r == fee_form.rent_date_entry
            p == fee_form.return_date_entry
            rate == popup.vehicle[1].daily_rate
            shown == fee_form.total_fee_var
        IN  /\ (r \in DOMAIN DayNumber /\ p \in DOMAIN DayNumber) =>
                  LET d == DayNumber[p] - DayNumber[r]
                      days == IF d >= 1 THEN d ELSE 1
                  IN  shown = FeeLabel(days, days * rate)
            /\ (r \notin DOMAIN DayNumber \/ p \notin DOMAIN DayNumber) =>
                  shown = "Total Fee: Rs0.00"
            /\ (r = "2025-01-01" /\ p = "2025-01-04" /\ rate = 50) =>
                  shown = "Total Fee for 3 day(s): Rs150.00"
            /\ (r = "2025-01-04" /\ p \in {"2025-01-04", "2025-01-01"} /\ rate = 50) =>
                  shown = "Total Fee for 1 day(s): Rs50.00"

C21_Witness ==
    /\ fee_form.rent_date_entry = "2025-01-01"
    /\ fee_form.return_date_entry = "2025-01-04"
    /\ popup.vehicle[1].daily_rate = 50
    /\ fee_form.total_fee_var = "Total Fee for 3 day(s): Rs150.00"

---------------------------------------------------------------------------
(* Abandoned forms: C22, checked under Spec *)

\* C22: opening the rent form, the vehicle-status form or the history-edit
\* form, any step that leaves the form open, and closing its window write
\* nothing: users, vehicles and rentals are stored as before.
C22_AbandonedFormWritesNothing ==
    [][(popup'.kind # "none" \/ event'.op = "WM_DELETE_WINDOW")
        => UNCHANGED <<users_csv, vehicles_csv, rentals_csv>>]_vars

C22_Witness ==
    /\ event.op = "WM_DELETE_WINDOW"
    /\ popup = NoPopup
    /\ Len(rentals_csv) > 0
    /\ \E vid \in VehicleIds : StoredAvailable(vehicles_csv, vid)

---------------------------------------------------------------------------
(* Registration: C23, checked under SpecRegistration *)

\* C23: whatever is registered through register_user, every stored account
\* has a non-empty username and a non-empty password, and an attempt with an
\* empty username or an empty password leaves the stored accounts as they were.
C23_StoredCredentialsNonEmpty ==
    /\ [](\A i \in 1..Len(users_csv) :
            users_csv[i].username # "" /\ users_csv[i].password # "")
    /\ [][screen = "registration" =>
            \A u \in RegistrationUsernames, p \in PasswordEntries :
                ((u = "" \/ p = "") /\ register_user(u, p))
                    => users_csv' = users_csv]_vars

C23_Witness ==
    /\ event.op = "register_user"
    /\ event.dialogs = <<"Error: cannot be empty">>
    /\ Len(users_csv) > 0
    /\ \A i \in 1..Len(users_csv) :
            users_csv[i].username # "" /\ users_csv[i].password # ""

---------------------------------------------------------------------------
(* The two writes of a rental creation: C24, checked under SpecInterrupted *)

\* C24: whenever confirm_rental has got past its validation, also when it
\* stopped between its two store writes, the agreement it stored as Rented
\* has its vehicle stored unavailable, and a vehicle it stored unavailable
\* has the new agreement stored.
C24_WritesOccurTogether ==
    (/\ event.op = "confirm_rental"
     /\ event.dialogs \notin {<<"Input Error">>, <<"Date Format Error">>})
    => LET n == Len(rentals_csv)
       IN  /\ n > 0
           /\ rentals_csv[n].status = "Rented"
           /\ StoredUnavailable(vehicles_csv, rentals_csv[n].vehicle_id)

---------------------------------------------------------------------------
(* Rented agreements per vehicle: C25, checked under Spec *)

\* C25: from a store with no rentals, whatever rental creations, history
\* edits and direct vehicle-status edits are made, no vehicle is referenced
\* by more than one agreement with status Rented.
C25_AtMostOneRentedPerVehicle ==
    \A vid \in VehicleIds : RentedCount(rentals_csv, vid) <= 1

---------------------------------------------------------------------------
(* Normal operation: C26, checked under SpecNormal *)

\* C26: when only rental creations and history edits that keep the status or
\* turn Rented into Returned are made, from a catalogue of available vehicles
\* and no rentals, every stored vehicle is unavailable exactly when one
\* Rented agreement references it and available exactly when none does.
C26_NormalOperationKeepsSync ==
    \A i \in 1..Len(vehicles_csv) :
        LET rented == {k \in 1..Len(rentals_csv) :
                          /\ rentals_csv[k].vehicle_id = vehicles_csv[i].vehicle_id
                          /\ rentals_csv[k].status = "Rented"}
        IN  /\ vehicles_csv[i].is_available = "False" <=> Cardinality(rented) = 1
            /\ vehicles_csv[i].is_available = "True" <=> rented = {}

C26_Witness ==
    /\ event.op = "confirm_rental"
    /\ event.dialogs = <<"Rental Confirmed">>
    /\ \E i, k \in 1..Len(rentals_csv) :
          /\ rentals_csv[i].status = "Returned"
          /\ rentals_csv[k].status = "Rented"
          /\ rentals_csv[k].vehicle_id = rentals_csv[i].vehicle_id
          /\ StoredUnavailable(vehicles_csv, rentals_csv[k].vehicle_id)

---------------------------------------------------------------------------
(* Direct vehicle-status edit and the rental store: C27, checked under Spec *)

\* C27: a direct vehicle-status edit leaves the rental store as it was:
\* setting a vehicle to Rented stores no agreement, and setting it to
\* Available, confirmed or not, leaves every agreement that references it
\* with its status and its actual_return_date.
C27_DirectEditKeepsRentals ==
    [][event'.op = "update_vehicle_status" =>
        /\ Len(rentals_csv') = Len(rentals_csv)
        /\ \A k \in 1..Len(rentals_csv) :
              /\ rentals_csv'[k].status = rentals_csv[k].status
              /\ rentals_csv'[k].actual_return_date = rentals_csv[k].actual_return_date
              /\ rentals_csv'[k] = rentals_csv[k]]_vars

C27_Witness ==
    /\ event.op = "update_vehicle_status"
    /\ event.dialogs = <<"Confirm Return", "Status Updated">>
    /\ \E k \in 1..Len(rentals_csv) :
          /\ rentals_csv[k].status = "Rented"
          /\ rentals_csv[k].actual_return_date = "N/A"
          /\ StoredAvailable(vehicles_csv, rentals_csv[k].vehicle_id)

---------------------------------------------------------------------------
(* The sentinel and the status: C28, checked under Spec *)

\* C28: a stored agreement has actual_return_date "N/A" if and only if its
\* status is Rented.
C28_SentinelIffRented ==
    \A k \in 1..Len(rentals_csv) :
        rentals_csv[k].actual_return_date = "N/A" <=> rentals_csv[k].status = "Rented"

---------------------------------------------------------------------------
(* Access to the main screen: C29, checked under Spec *)

\* a stored account has exactly this username and this password
AccountStored(username, password) ==
    \E i \in 1..Len(users_csv) :
        users_csv[i].username = username /\ users_csv[i].password = password

\* C29: the main screen is shown, and the vehicle and rental stores and
\* windows are touched, only with current_user set to a stored account; the
\* step to the main screen is a login whose username and password equal
\* those of one stored account; a login without such an account leaves
\* current_user unset and the login screen shown; registering sets no
\* current_user and does not show the main screen.
C29_MainScreenOnlyAfterLogin ==
    /\ [](screen = "main" =>
            /\ current_user # <<>>
            /\ AccountStored(current_user[1].username, current_user[1].password))
    /\ [][(screen # "main" /\ screen' = "main") => event'.op = "login"]_vars
    /\ [][screen = "login" =>
            \A u \in StaffUsernames, p \in StaffPasswords :
                login(u, p) =>
                    IF AccountStored(u, p)
                    THEN /\ screen' = "main"
                         /\ current_user' = <<User(u, p)>>
                    ELSE /\ screen' = "login"
                         /\ current_user' = <<>>]_vars
    /\ [][(rentals_csv' # rentals_csv \/ vehicles_csv' # vehicles_csv \/ popup' # popup)
            => (screen = "main" /\ current_user # <<>>)]_vars
    /\ [][event'.op = "register_user" =>
            (current_user' = <<>> /\ screen' # "main")]_vars

C29_Witness ==
    /\ screen = "main"
    /\ current_user # <<>>
    /\ AccountStored(current_user[1].username, current_user[1].password)
    /\ Len(rentals_csv) > 0

===========================================================================
